---- MODULE Spec2Model ----
(***************************************************************************)
(* The post-generation hook of the project template                        *)
(* (hooks/post_gen_project.py): the module body (debugpy, logging), main() *)
(* and copy_feature(), over a model of the generated project's file tree;  *)
(* and, further down, the degrade statuses of the http fragment's Flask    *)
(* app (utils/degrade_status.py) and its request logging middleware        *)
(* (utils/middleware/flask_logging.py, utils/logging_config.py).           *)
(*                                                                         *)
(* A file tree is a function from paths to nodes.  A path is a sequence of *)
(* names relative to PROJECT_ROOT (the hook's working directory); the      *)
(* root itself is the empty path and always a directory.                   *)
(***************************************************************************)
EXTENDS Integers, Sequences, FiniteSets, TLC

VARIABLES
    fs,                 \* the file tree under PROJECT_ROOT
    fs0,                \* the tree as the template engine rendered it
    pc,                 \* position of the hook script
    err,                \* the exception that ended the run, or NoError
    trace,              \* one record per copy_feature call made
    steps,              \* the statements of main() executed, in order
    earlier,            \* how the runs before this one ended, one record each
    listing_order,      \* the order in which directory listings come back:
                        \* all entry names in a row, a listing being the
                        \* names of its directory in that order
    ff_http,            \* rendered text of {{ cookiecutter.ff_http }}
    ff_pubsub,          \* rendered text of {{ cookiecutter.ff_pubsub }}
    keep_features_dir,  \* the user's choice to retain _cookie_features/
    config,             \* the Flask app's config entry DEGRADE_STATUS_KEY
    history,            \* the calls made on the app, one record each
    ctx,                \* the request-scoped context variables' values
    phase,              \* where the worker is in handling a request
    served,             \* how many requests the worker has started on
    records             \* the log records emitted, as the filter left them

hookVars == <<fs, fs0, pc, err, trace, steps, earlier, listing_order, ff_http, ff_pubsub, keep_features_dir>>
appVars == <<config, history>>
reqVars == <<ctx, phase, served, records>>
vars == <<hookVars, appVars, reqVars>>

\* How many calls are made on the app.
MaxOps == 4

\* How many degrade_app_if_fail calls are made on the app.
MaxChecks == 1

\* How many requests the worker handles.
MaxRequests == 2

\* How many direct copy_feature calls the merge specification makes.
MaxCalls == 2

NoError == "none"

(***************************************************************************)
(* Text.  A Python str is a sequence of one-character strings, so that     *)
(* str.upper and str.lower are computed character by character.            *)
(***************************************************************************)
LowerCase == <<"a","b","c","d","e","f","g","h","i","j","k","l","m",
               "n","o","p","q","r","s","t","u","v","w","x","y","z">>
UpperCase == <<"A","B","C","D","E","F","G","H","I","J","K","L","M",
               "N","O","P","Q","R","S","T","U","V","W","X","Y","Z">>

MapChar(from, to, c) ==
    IF \E i \in DOMAIN from : from[i] = c
    THEN to[CHOOSE i \in DOMAIN from : from[i] = c]
    ELSE c

upper(s) == [i \in DOMAIN s |-> MapChar(LowerCase, UpperCase, s[i])]
lower(s) == [i \in DOMAIN s |-> MapChar(UpperCase, LowerCase, s[i])]

\* The literals main() compares against.
LitTrue  == <<"T","r","u","e">>
LitFalse == <<"F","a","l","s","e">>

\* What the template engine may have rendered for a feature variable.
RenderedValues ==
    { <<"T","r","u","e">>, <<"F","a","l","s","e">>,
      <<"t","r","u","e">>, <<"f","a","l","s","e">>,
      <<"y","e","s">> }

(***************************************************************************)
(* File trees.                                                             *)
(***************************************************************************)
DirNode == [kind |-> "dir", data |-> <<>>]
FileNode(d) == [kind |-> "file", data |-> d]

PROJECT_ROOT == <<>>
FEATURES_DIR == PROJECT_ROOT \o <<"_cookie_features">>
LOGFILE == PROJECT_ROOT \o <<".post_gen.log">>

Exists(t, p) == p = <<>> \/ p \in DOMAIN t
IsDir(t, p) == p = <<>> \/ (p \in DOMAIN t /\ t[p].kind = "dir")
IsFile(t, p) == p \in DOMAIN t /\ t[p].kind = "file"

Parent(p) == SubSeq(p, 1, Len(p) - 1)
Name(p) == p[Len(p)]
IsUnder(p, d) == Len(p) > Len(d) /\ SubSeq(p, 1, Len(d)) = d

\* The names of the entries directly inside directory d.
Listing(t, d) == { Name(p) : p \in { q \in DOMAIN t : Len(q) = Len(d) + 1 /\ Parent(q) = d } }

\* The tree with node n at path p, everything else as it was.
Put(t, p, n) == [q \in DOMAIN t \cup {p} |-> IF q = p THEN n ELSE t[q]]

\* The relative tree rel placed under directory d.
Graft(rel, d) ==
    [p \in { d \o q : q \in DOMAIN rel } |-> rel[SubSeq(p, Len(d) + 1, Len(p))]]

\* The subtree under directory d, as a relative tree.
Subtree(t, d) ==
    [q \in { SubSeq(p, Len(d) + 1, Len(p)) : p \in { r \in DOMAIN t : IsUnder(r, d) } }
        |-> t[d \o q]]

\* All enumerations of a finite set, as sequences: the orders in which a
\* directory listing may come back.
Orders(S) ==
    { s \in [1..Cardinality(S) -> S] : \A i, j \in DOMAIN s : s[i] = s[j] => i = j }

Outcome(t, e, w) == [fs |-> t, err |-> e, writes |-> w]

(***************************************************************************)
(* logging: the FileHandler on LOGFILE appends one record per call.        *)
(***************************************************************************)
\* A record is the level name followed by the words of the message.
LogInfo(t, msg) ==
    Put(t, LOGFILE,
        FileNode((IF IsFile(t, LOGFILE) THEN t[LOGFILE].data ELSE <<>>)
                 \o <<"INFO">> \o msg))

(***************************************************************************)
(* shutil.copy2(src, dst): into dst when it is a directory, else onto it.  *)
(***************************************************************************)
\* copy2 that leaves an existing destination file as it is.
copy2_keep_existing(t, src, dst) ==
    LET real == IF IsDir(t, dst) THEN dst \o <<Name(src)>> ELSE dst
    IN  IF IsDir(t, real) THEN Outcome(t, "IsADirectoryError", 0)
        ELSE IF Exists(t, real) THEN Outcome(t, NoError, 0)
        ELSE Outcome(Put(t, real, t[src]), NoError, 1)

copy2(t, src, dst) ==
    LET real == IF IsDir(t, dst) THEN dst \o <<Name(src)>> ELSE dst
    IN  IF IsDir(t, real)
        THEN Outcome(t, "IsADirectoryError", 0)
        ELSE Outcome(Put(t, real, t[src]), NoError, 1)

(***************************************************************************)
(* shutil.copytree(src, dst, dirs_exist_ok=True): makedirs(dst), then      *)
(* every entry of src; an entry's error is collected and the others are    *)
(* still copied, the collected errors raised at the end.  The entries come *)
(* in the order the file system lists them, listing_order.                 *)
(***************************************************************************)
RECURSIVE copytree(_, _, _)
RECURSIVE CopyEntries(_, _, _, _)

\* copytree without dirs_exist_ok: an existing destination is an error.
copytree_dirs_must_not_exist(t, src, dst) ==
    IF Exists(t, dst)
    THEN Outcome(t, "FileExistsError", 0)
    ELSE LET r == CopyEntries(Put(t, dst, DirNode), src, dst, Listing(t, src))
         IN  Outcome(r.fs,
                     IF r.err # NoError THEN "shutil.Error" ELSE NoError,
                     1 + r.writes)

CopyEntries(t, src, dst, names) ==
    IF names = {} THEN Outcome(t, NoError, 0)
    ELSE LET Listed(x) == x \in names
             n == Head(SelectSeq(listing_order, Listed))
             one == IF IsDir(t, src \o <<n>>)
                    THEN copytree(t, src \o <<n>>, dst \o <<n>>)
                    ELSE copy2(t, src \o <<n>>, dst \o <<n>>)
             rest == CopyEntries(one.fs, src, dst, names \ {n})
         IN  Outcome(rest.fs,
                     IF one.err # NoError THEN one.err ELSE rest.err,
                     one.writes + rest.writes)

\* copytree that replaces an existing destination directory: what it held goes.
copytree_replacing(t, src, dst) ==
    IF Exists(t, dst) /\ ~IsDir(t, dst)
    THEN Outcome(t, "FileExistsError", 0)
    ELSE LET cleared == [p \in { q \in DOMAIN t : ~IsUnder(q, dst) \/ IsUnder(q, src) \/ q = src } |-> t[p]]
             r == CopyEntries(Put(cleared, dst, DirNode), src, dst, Listing(t, src))
         IN  Outcome(r.fs,
                     IF r.err # NoError THEN "shutil.Error" ELSE NoError,
                     1 + r.writes)

copytree(t, src, dst) ==
    IF Exists(t, dst) /\ ~IsDir(t, dst)
    THEN Outcome(t, "FileExistsError", 0)
    ELSE LET made == IF Exists(t, dst) THEN 0 ELSE 1
             r == CopyEntries(Put(t, dst, DirNode), src, dst, Listing(t, src))
         IN  Outcome(r.fs,
                     IF r.err # NoError THEN "shutil.Error" ELSE NoError,
                     made + r.writes)

(***************************************************************************)
(* copy_feature(name): the children of FEATURES_DIR/name, in the order     *)
(* iterdir() yields them, each logged and then copied into PROJECT_ROOT.   *)
(* The first error ends the loop.                                          *)
(***************************************************************************)
RECURSIVE CopyItems(_, _, _)

\* The loop with every item's error caught: the items after it are still copied.
CopyItems_keep_going(t, feature_dir, order) ==
    IF order = <<>> THEN Outcome(t, NoError, 0)
    ELSE LET item == feature_dir \o <<Head(order)>>
             dst == PROJECT_ROOT \o <<Head(order)>>
             logged == LogInfo(t, item)
             one == IF IsDir(logged, item)
                    THEN copytree(logged, item, dst)
                    ELSE copy2(logged, item, dst)
             rest == CopyItems(one.fs, feature_dir, Tail(order))
         IN  Outcome(rest.fs,
                     IF one.err # NoError THEN one.err ELSE rest.err,
                     1 + one.writes + rest.writes)

CopyItems(t, feature_dir, order) ==
    IF order = <<>> THEN Outcome(t, NoError, 0)
    ELSE LET item == feature_dir \o <<Head(order)>>
             dst == PROJECT_ROOT \o <<Head(order)>>
             logged == LogInfo(t, item)
             one == IF IsDir(logged, item)
                    THEN copytree(logged, item, dst)
                    ELSE copy2(logged, item, dst)
         IN  IF one.err # NoError
             THEN Outcome(one.fs, one.err, 1 + one.writes)
             ELSE LET rest == CopyItems(one.fs, feature_dir, Tail(order))
                  IN  Outcome(rest.fs, rest.err, 1 + one.writes + rest.writes)

\* Config.UNPACK_FEATURE_DIRECTORIES.  No statement of the hook reads it.
UNPACK_FEATURE_DIRECTORIES == TRUE

\* copy_feature reading Config.UNPACK_FEATURE_DIRECTORIES the wrong way
\* round: set, the fragment directory itself is copied into PROJECT_ROOT.
copy_feature_packed(t, name, order) ==
    LET feature_dir == FEATURES_DIR \o <<name>>
    IN  IF ~Exists(t, feature_dir) THEN Outcome(t, NoError, 0)
        ELSE IF ~IsDir(t, feature_dir) THEN Outcome(t, "NotADirectoryError", 0)
        ELSE IF UNPACK_FEATURE_DIRECTORIES
             THEN copytree(LogInfo(t, feature_dir), feature_dir, PROJECT_ROOT \o <<name>>)
             ELSE CopyItems(t, feature_dir, order)

\* copy_feature without the exists() test: iterdir() of a missing directory raises.
copy_feature_unguarded(t, name, order) ==
    LET feature_dir == FEATURES_DIR \o <<name>>
    IN  IF ~Exists(t, feature_dir) THEN Outcome(t, "FileNotFoundError", 0)
        ELSE IF ~IsDir(t, feature_dir) THEN Outcome(t, "NotADirectoryError", 0)
        ELSE CopyItems(t, feature_dir, order)

copy_feature(t, name, order) ==
    LET feature_dir == FEATURES_DIR \o <<name>>
    IN  IF ~Exists(t, feature_dir) THEN Outcome(t, NoError, 0)
        ELSE IF ~IsDir(t, feature_dir) THEN Outcome(t, "NotADirectoryError", 0)
        ELSE CopyItems(t, feature_dir, order)

\* What iterdir() yields for FEATURES_DIR/name: its entries, in the order
\* the file system lists them (any order, the same on every listing).
iterdir(t, name, lo) ==
    LET here == Listing(t, FEATURES_DIR \o <<name>>)
        Listed(n) == n \in here
    IN  SelectSeq(lo, Listed)

(***************************************************************************)
(* shutil.rmtree(path)                                                     *)
(***************************************************************************)
rmtree(t, d) ==
    IF ~Exists(t, d) THEN Outcome(t, "FileNotFoundError", 0)
    ELSE IF ~IsDir(t, d) THEN Outcome(t, "NotADirectoryError", 0)
    ELSE Outcome([p \in { q \in DOMAIN t : q # d /\ ~IsUnder(q, d) } |-> t[p]],
                 NoError, 1)

(***************************************************************************)
(* main(): the two feature tests, the merges they select, the cleanup.     *)
(***************************************************************************)
include_http(v) == upper(v) = LitTrue

\* The pubsub test with the lowered text compared against lowered "False".
include_pubsub_lowered_literal(v) == lower(v) = lower(LitFalse)

include_pubsub(v) == lower(v) = LitFalse

\* The cleanup switched on.
REMOVE_FEATURES_DIR_POST_on == TRUE

\* The cleanup done when the features directory is not kept and the http
\* feature was asked for.
REMOVE_FEATURES_DIR_POST_with_http ==
    ~keep_features_dir /\ lower(ff_http) = lower(LitTrue)

\* Config.REMOVE_FEATURES_DIR_POST
REMOVE_FEATURES_DIR_POST == FALSE

Call(name, before, r) ==
    [name |-> name, before |-> before, after |-> r.fs, err |-> r.err, writes |-> r.writes]

(***************************************************************************)
(* The trees the hook may start from.  Shapes are the prefix-closed        *)
(* assignments of a kind to some of RelPaths; a file's data names where it *)
(* came from (tag) and which file it is.                                   *)
(***************************************************************************)
RelPaths ==
    { <<"app.py">>, <<"main.py">>, <<"utils">>, <<"utils", "deduping.py">>,
      <<"utils", "middleware">>, <<"utils", "middleware", "flask_logging.py">> }
MayBeDir == { <<"utils">>, <<"utils", "middleware">> }

ShapesOver(paths) ==
    { k \in UNION { [S -> {"dir", "file"}] : S \in SUBSET paths } :
        \A p \in DOMAIN k :
            /\ k[p] = "dir" => p \in MayBeDir
            /\ Len(p) > 1 => (Parent(p) \in DOMAIN k /\ k[Parent(p)] = "dir") }

Shapes == ShapesOver(RelPaths)

\* What the destination may hold: the same, and a file named like the
\* directory it is in.
DestShapes == ShapesOver(RelPaths \cup { <<"utils", "middleware", "middleware">> })

Tree(shape, tag) ==
    [p \in DOMAIN shape |-> IF shape[p] = "dir" THEN DirNode ELSE FileNode(<<tag>> \o p)]

FeatureNames == {"ff_http", "ff_pubsub"}

\* The fragments as the template ships them.
HttpShape ==
    [p \in { <<"app.py">>, <<"utils">>, <<"utils", "middleware">>,
             <<"utils", "middleware", "flask_logging.py">> }
        |-> IF p \in { <<"utils">>, <<"utils", "middleware">> } THEN "dir" ELSE "file"]
PubsubShape ==
    [p \in { <<"app.py">>, <<"main.py">>, <<"utils">>, <<"utils", "deduping.py">> }
        |-> IF p = <<"utils">> THEN "dir" ELSE "file"]

\* A fragment that holds a staging directory of its own, with an entry for
\* the fragment itself: merged into the root, it lands on the real one.
OverlappingTree ==
    [p \in { FEATURES_DIR, FEATURES_DIR \o <<"ff_http">>,
             FEATURES_DIR \o <<"ff_http", "app.py">> }
        |-> IF Len(p) < 3 THEN DirNode ELSE FileNode(<<"http">> \o p)]

\* The names a fragment may hold at its top.
TopNames == { Name(p) : p \in { q \in RelPaths \cup DOMAIN OverlappingTree : Len(q) = 1 } }

\* A fragment directory holding the relative tree rel.
Fragment(name, rel) ==
    Put(Graft(rel, FEATURES_DIR \o <<name>>), FEATURES_DIR \o <<name>>, DirNode)

Empty == [p \in {} |-> DirNode]
Staging == Put(Empty, FEATURES_DIR, DirNode)

\* The rendered project: a skeleton, the staging directory, and each
\* template fragment either staged or not.
\* The skeletons: what the rendered project may already hold at the paths
\* the fragments provide.
SkeletonShapes ==
    { k \in Shapes :
        DOMAIN k \subseteq { <<"app.py">>, <<"utils">>, <<"utils", "deduping.py">> } }

RenderedProjects ==
    { Tree(sk, "skel") @@ Staging @@ h @@ p :
        sk \in SkeletonShapes,
        h \in { Empty, Fragment("ff_http", Tree(HttpShape, "http")) },
        p \in { Empty, Fragment("ff_pubsub", Tree(PubsubShape, "pubsub")) } }

\* The names the template's fragments hold at their top.
TemplateTopNames ==
    { Name(p) : p \in { q \in DOMAIN HttpShape \cup DOMAIN PubsubShape : Len(q) = 1 } }

(***************************************************************************)
(* utils/logging_config.py: the eight request-scoped context variables,    *)
(* each None by default, and the filter that copies them onto a record.    *)
(* A value other than None is a pair: what it is, and the number of the    *)
(* request it belongs to.                                                  *)
(***************************************************************************)
ContextVars ==
    {"request_id", "correlation_id", "http_method", "http_path",
     "status_code", "duration_ms", "client_ip", "user_agent"}

None == <<>>

\* ContextVar(name, default=None), for every one of them.
Defaults == [v \in ContextVars |-> None]

\* RequestContextFilter.filter on a record logged without these fields in
\* extra: every field is the variable's value.
filter(c) == [v \in ContextVars |-> c[v]]

\* A record emitted while request number during was being handled (0:
\* outside any request).
Record(event, during, c) == [event |-> event, during |-> during, fields |-> filter(c)]

NoRequests ==
    /\ ctx = Defaults
    /\ phase = "idle"
    /\ served = 0
    /\ records = {}

(***************************************************************************)
(* utils/degrade_status.py: the degrade statuses of a Flask app.  The      *)
(* config entry is absent until get_degrade_statuses first stores a set.   *)
(***************************************************************************)
AppDegradeStatusType ==
    {"MISSING_SECRETS", "PUBLISHER_CLIENT_FAIL", "MISSING_TOPIC", "PUBLISH_FAILED"}

\* AppDegradeStatusType.__str__: the member's value.
str(s) ==
    CASE s = "MISSING_SECRETS" -> "Missing App Secrets"
      [] s = "PUBLISHER_CLIENT_FAIL" -> "Failed to connect Pub/Sub"
      [] s = "MISSING_TOPIC" -> "Missing Pub/Sub Topic"
      [] s = "PUBLISH_FAILED" -> "Failed to publish pub/sub"

\* flask.Flask(__name__): no entry DEGRADE_STATUS_KEY in app.config.
NewConfig == [has_key |-> FALSE, statuses |-> {}]

\* The config after the call; the set it returns is the stored one.
get_degrade_statuses(cfg) ==
    IF ~cfg.has_key \/ cfg.statuses = {}
    THEN [has_key |-> TRUE, statuses |-> {}]
    ELSE cfg

add_degrade_status(cfg, status) ==
    LET c == get_degrade_statuses(cfg)
    IN  [c EXCEPT !.statuses = @ \cup {status}]

\* remove_degrade_status with set.clear() for set.remove(status).
remove_degrade_status_clears(cfg, status) ==
    LET c == get_degrade_statuses(cfg)
    IN  [config |-> [c EXCEPT !.statuses = {}], raised |-> NoError]

\* set.remove raises KeyError for an element the set does not have.
remove_degrade_status(cfg, status) ==
    LET c == get_degrade_statuses(cfg)
    IN  IF status \in c.statuses
        THEN [config |-> [c EXCEPT !.statuses = @ \ {status}], raised |-> NoError]
        ELSE [config |-> c, raised |-> "KeyError"]

app_is_degraded(cfg) == get_degrade_statuses(cfg)

NoResponse == [code |-> 0, status |-> "", has_failure |-> FALSE, failure |-> <<>>]

\* AppDegradeView(app).dispatch_request(): fail_condition is
\* bool(app_is_degraded(app)), fail_response_data the statuses' texts in the
\* order the set yields them (listed), other_response_data is empty.
dispatch_request(cfg, listed) ==
    LET c == app_is_degraded(cfg)
        failed == c.statuses # {}
    IN  [config |-> c,
         response |->
            [code |-> IF ~failed THEN 200 ELSE 500,
             status |-> IF ~failed THEN "healthy" ELSE "degraded",
             has_failure |-> failed,
             failure |-> IF failed THEN [i \in DOMAIN listed |-> str(listed[i])] ELSE <<>>]]

\* One call on the app, as history keeps it.
Op(name, status, raised, response, cfg) ==
    [op |-> name, status |-> status, raised |-> raised, response |-> response,
     statuses |-> cfg.statuses]

NewApp ==
    /\ config = NewConfig
    /\ history = <<>>

\* The hook is not part of the app: its variables stay as they are.
NoHook ==
    /\ fs0 = Empty
    /\ fs = fs0
    /\ pc = "none"
    /\ err = NoError
    /\ trace = <<>>
    /\ steps = <<>>
    /\ earlier = <<>>
    /\ listing_order = <<>>
    /\ ff_http = LitFalse
    /\ ff_pubsub = LitFalse
    /\ keep_features_dir = TRUE

AppInit == NoHook /\ NewApp /\ NoRequests

AddDegradeStatus ==
    /\ Len(history) < MaxOps
    /\ \E status \in AppDegradeStatusType :
        \E c \in { add_degrade_status(config, status) } :
           /\ config' = c
           /\ history' = Append(history, Op("add_degrade_status", status, NoError, NoResponse, c))
    /\ UNCHANGED hookVars
    /\ UNCHANGED reqVars

RemoveDegradeStatus ==
    /\ Len(history) < MaxOps
    /\ \E status \in AppDegradeStatusType :
        \E r \in { remove_degrade_status(config, status) } :
           /\ config' = r.config
           /\ history' = Append(history, Op("remove_degrade_status", status, r.raised, NoResponse, r.config))
    /\ UNCHANGED hookVars
    /\ UNCHANGED reqVars

\* GET on the route of AppDegradeView(app).view(route).
Get ==
    /\ Len(history) < MaxOps
    /\ \E listed \in Orders(get_degrade_statuses(config).statuses) :
        \E r \in { dispatch_request(config, listed) } :
           /\ config' = r.config
           /\ history' = Append(history, Op("GET", "", NoError, r.response, r.config))
    /\ UNCHANGED hookVars
    /\ UNCHANGED reqVars

AppNext == AddDegradeStatus \/ RemoveDegradeStatus \/ Get

AppSpec == AppInit /\ [][AppNext]_vars

(***************************************************************************)
(* degrade_app_if_fail.  A callable is what calling it does: it returns a  *)
(* result or raises.  Values are an int or a text (None is the text        *)
(* "None").                                                                *)
(***************************************************************************)
IntValue(n) == [int |-> n, text |-> ""]
Text(x) == [int |-> 0, text |-> x]

Returns(v) == [raises |-> NoError, result |-> v]
Raises(e) == [raises |-> e, result |-> Text("")]

\* The subclasses of Exception among the exceptions raised here;
\* KeyboardInterrupt and SystemExit derive from BaseException only.
IsException(e) == e \in {"ZeroDivisionError", "KeyError"}

\* lambda: 13 % 4, lambda: 13 % 8, lambda: -1 / 0, sys.exit
Callables == { Returns(IntValue(13 % 4)), Returns(IntValue(13 % 8)),
               Raises("ZeroDivisionError"), Raises("SystemExit") }

\* None, lambda x: x > 4, lambda x: x / 0 > 4
FailConditions == {"None", "x > 4", "x / 0 > 4"}

\* fail_condition(result)
Apply(fail_condition, result) ==
    IF fail_condition = "x > 4" THEN [raises |-> NoError, value |-> result.int > 4]
    ELSE [raises |-> "ZeroDivisionError", value |-> FALSE]

Outcome17(cfg, returned, raised) == [config |-> cfg, returned |-> returned, raised |-> raised]

\* degrade_app_if_fail without the fail_condition test.
degrade_app_if_fail_untested(cfg, callable_, status_if_fail, return_if_error, fail_condition) ==
    IF callable_.raises = NoError THEN Outcome17(cfg, callable_.result, NoError)
    ELSE IF IsException(callable_.raises)
         THEN Outcome17(add_degrade_status(cfg, status_if_fail), return_if_error, NoError)
         ELSE Outcome17(cfg, Text(""), callable_.raises)

\* The try block holds callable_() and fail_condition(result); except
\* Exception catches what either raises, and nothing else.
degrade_app_if_fail(cfg, callable_, status_if_fail, return_if_error, fail_condition) ==
    LET test == Apply(fail_condition, callable_.result)
        raised == IF callable_.raises # NoError THEN callable_.raises
                  ELSE IF fail_condition # "None" THEN test.raises
                  ELSE NoError
    IN  IF raised = NoError
        THEN IF fail_condition # "None" /\ test.value
             THEN Outcome17(add_degrade_status(cfg, status_if_fail), callable_.result, NoError)
             ELSE Outcome17(cfg, callable_.result, NoError)
        ELSE IF IsException(raised)
             THEN Outcome17(add_degrade_status(cfg, status_if_fail), return_if_error, NoError)
             ELSE Outcome17(cfg, Text(""), raised)

\* The app after any calls of add_degrade_status and remove_degrade_status.
Configs ==
    {NewConfig} \cup { [has_key |-> TRUE, statuses |-> S] : S \in SUBSET AppDegradeStatusType }

DegradeInit ==
    /\ NoHook
    /\ config \in Configs
    /\ history = <<>>
    /\ NoRequests

DegradeAppIfFail ==
    /\ Len(history) < MaxChecks
    /\ \E callable_ \in Callables, status_if_fail \in AppDegradeStatusType,
          return_if_error \in {Text("None"), Text("Whoops!")},
          fail_condition \in FailConditions :
        \E r \in { degrade_app_if_fail(config, callable_, status_if_fail,
                                        return_if_error, fail_condition) } :
           /\ config' = r.config
           /\ history' = Append(history,
                  [op |-> "degrade_app_if_fail", callable_ |-> callable_,
                   status_if_fail |-> status_if_fail, return_if_error |-> return_if_error,
                   fail_condition |-> fail_condition, before |-> config.statuses,
                   statuses |-> r.config.statuses, returned |-> r.returned,
                   raised |-> r.raised])
    /\ UNCHANGED hookVars
    /\ UNCHANGED reqVars

DegradeNext == DegradeAppIfFail

DegradeSpec == DegradeInit /\ [][DegradeNext]_vars

(***************************************************************************)
(* utils/middleware/flask_logging.py: the three handlers that              *)
(* install_flask_logging registers, run by one worker that handles its     *)
(* requests one after the other.  Flask runs before_request, the view,     *)
(* after_request on the response (not when the exception propagates), and  *)
(* teardown_request in every case.                                         *)
(***************************************************************************)
\* The headers a request may carry.
Requests ==
    [x_request_id : BOOLEAN, x_correlation_id : BOOLEAN, user_agent : BOOLEAN]

_before_request(c, req, n) ==
    LET req_id == IF req.x_request_id THEN <<"X-Request-ID", n>> ELSE <<"uuid4", n>>
        corr_id == IF req.x_correlation_id THEN <<"X-Correlation-ID", n>> ELSE req_id
    IN  [c EXCEPT !["request_id"] = req_id,
                  !["correlation_id"] = corr_id,
                  !["http_method"] = <<"method", n>>,
                  !["http_path"] = <<"path", n>>,
                  !["client_ip"] = <<"remote_addr", n>>,
                  !["user_agent"] = IF req.user_agent THEN <<"User-Agent", n>> ELSE None]

_after_request(c, status_code, n) ==
    [c EXCEPT !["duration_ms"] = <<"perf_counter", n>>,
              !["status_code"] = <<status_code, n>>]

\* The teardown without status_code_var and duration_ms_var in its tuple.
_teardown_request_of_six(c) ==
    [v \in ContextVars |-> IF v \in {"status_code", "duration_ms"} THEN c[v] ELSE None]

_teardown_request(c) == [v \in ContextVars |-> None]

RequestInit == NoHook /\ NewApp /\ NoRequests

BeforeRequest ==
    /\ phase = "idle"
    /\ served < MaxRequests
    /\ served' = served + 1
    /\ \E req \in Requests :
           /\ ctx' = _before_request(ctx, req, served')
           /\ records' = records \cup {Record("http.request.start", served', ctx')}
    /\ phase' = "view"
    /\ UNCHANGED <<hookVars, appVars>>

ViewReturns ==
    /\ phase = "view"
    /\ phase' = "response 200"
    /\ UNCHANGED <<ctx, served, records, hookVars, appVars>>

\* The view raises: Flask answers 500, or lets the exception propagate
\* (PROPAGATE_EXCEPTIONS) and after_request is not run.
ViewRaises ==
    /\ phase = "view"
    /\ \/ phase' = "response 500"
       \/ phase' = "exception"
    /\ UNCHANGED <<ctx, served, records, hookVars, appVars>>

AfterRequest ==
    /\ phase \in {"response 200", "response 500"}
    /\ ctx' = _after_request(ctx, IF phase = "response 200" THEN "200" ELSE "500", served)
    /\ records' = records \cup {Record("http.request.end", served, ctx')}
    /\ phase' = "responded"
    /\ UNCHANGED <<served, hookVars, appVars>>

TeardownRequest ==
    /\ phase \in {"responded", "exception"}
    /\ ctx' = _teardown_request(ctx)
    /\ phase' = "idle"
    /\ UNCHANGED <<served, records, hookVars, appVars>>

\* Any other logger call of the application, in a view or between two requests.
Log ==
    /\ phase \in {"idle", "view"}
    /\ records' = records \cup {Record("other", IF phase = "idle" THEN 0 ELSE served, ctx)}
    /\ UNCHANGED <<ctx, phase, served, hookVars, appVars>>

RequestNext ==
    BeforeRequest \/ ViewReturns \/ ViewRaises \/ AfterRequest \/ TeardownRequest \/ Log

RequestSpec == RequestInit /\ [][RequestNext]_vars

\* The names of entries below a fragment's top.  Where no directory of the
\* trees tried lists two of them together their mutual order changes
\* nothing, and one order stands for all.
NamesBelow == <<"deduping.py", "middleware", "flask_logging.py", "ff_http">>

\* In the template's fragments every directory below the top has one entry.
ListingOrders == { top \o NamesBelow : top \in Orders(TemplateTopNames) }

Init ==
    /\ fs0 \in RenderedProjects
    /\ fs = fs0
    /\ pc = "start"
    /\ err = NoError
    /\ trace = <<>>
    /\ steps = <<>>
    /\ earlier = <<>>
    /\ listing_order \in ListingOrders
    /\ ff_http \in RenderedValues
    /\ ff_pubsub \in RenderedValues
    /\ keep_features_dir \in BOOLEAN
    /\ NewApp
    /\ NoRequests

(***************************************************************************)
(* The module body: debugpy, then logging.                                 *)
(***************************************************************************)
\* debugpy.listen(5678): the port is free, or the call raises.
DebugpyListen ==
    /\ pc = "start"
    /\ \/ pc' = "wait_for_client" /\ err' = err
       \/ pc' = "failed" /\ err' = "RuntimeError"
    /\ UNCHANGED <<fs, fs0, trace, steps, earlier, listing_order, ff_http, ff_pubsub, keep_features_dir>>
    /\ UNCHANGED appVars
    /\ UNCHANGED reqVars

\* debugpy.wait_for_client() returns when a debugger attaches.
DebuggerAttach ==
    /\ pc = "wait_for_client"
    /\ pc' = "breakpoint"
    /\ UNCHANGED <<fs, fs0, err, trace, steps, earlier, listing_order, ff_http, ff_pubsub, keep_features_dir>>
    /\ UNCHANGED appVars
    /\ UNCHANGED reqVars

\* debugpy.breakpoint() pauses until the attached debugger resumes the script.
DebuggerContinue ==
    /\ pc = "breakpoint"
    /\ pc' = "logging"
    /\ UNCHANGED <<fs, fs0, err, trace, steps, earlier, listing_order, ff_http, ff_pubsub, keep_features_dir>>
    /\ UNCHANGED appVars
    /\ UNCHANGED reqVars

\* logging.basicConfig: the FileHandler opens LOGFILE for appending.
ConfigureLogging ==
    /\ pc = "logging"
    /\ fs' = Put(fs, LOGFILE, FileNode(IF IsFile(fs, LOGFILE) THEN fs[LOGFILE].data ELSE <<>>))
    /\ pc' = "main"
    /\ UNCHANGED <<fs0, err, trace, steps, earlier, listing_order, ff_http, ff_pubsub, keep_features_dir>>
    /\ UNCHANGED appVars
    /\ UNCHANGED reqVars

\* The statements of main() after its two log lines.
TestHttp == "if include_http"
TestPubsub == "if include_pubsub"
TestRemove == "if Config.REMOVE_FEATURES_DIR_POST"
CopyStep(name) == "copy_feature " \o name
RmtreeStep == "shutil.rmtree"

\* main() so far: the tree, the exception raised if any, the copy_feature
\* calls made and the statements executed.  An exception ends main(): the
\* statements after the one that raised are not executed.
MainStarted(t) ==
    [fs |-> LogInfo(LogInfo(t, <<"Starting post_gen_project">>), <<"cwd=">> \o PROJECT_ROOT),
     err |-> NoError, calls |-> <<>>, steps |-> <<>>]

Then(run, label, r) ==
    [fs |-> r.fs, err |-> r.err, calls |-> run.calls, steps |-> run.steps \o <<label>>]

ThenCall(run, name, r) ==
    [fs |-> r.fs, err |-> r.err,
     calls |-> Append(run.calls, Call(name, run.fs, r)),
     steps |-> Append(run.steps, CopyStep(name))]

\* if include: copy_feature(name)
MergeIf(run, test, include, name, lo) ==
    IF run.err # NoError THEN run
    ELSE IF ~include THEN Then(run, test, run)
    ELSE ThenCall(Then(run, test, run), name,
                  copy_feature(run.fs, name, iterdir(run.fs, name, lo)))

\* if Config.REMOVE_FEATURES_DIR_POST: shutil.rmtree(FEATURES_DIR)
RemoveIf(run) ==
    IF run.err # NoError THEN run
    ELSE IF ~REMOVE_FEATURES_DIR_POST THEN Then(run, TestRemove, run)
    ELSE Then(Then(run, TestRemove, run), RmtreeStep, rmtree(run.fs, FEATURES_DIR))

\* main() with the cleanup ahead of the merges.
main_cleanup_first(t, v_http, v_pubsub, lo) ==
    MergeIf(MergeIf(RemoveIf(MainStarted(t)),
                    TestHttp, include_http(v_http), "ff_http", lo),
            TestPubsub, include_pubsub(v_pubsub), "ff_pubsub", lo)

\* main() from tree t, with directory listings in order lo.
main(t, v_http, v_pubsub, lo) ==
    RemoveIf(MergeIf(MergeIf(MainStarted(t),
                             TestHttp, include_http(v_http), "ff_http", lo),
                     TestPubsub, include_pubsub(v_pubsub), "ff_pubsub", lo))

Main ==
    /\ pc = "main"
    /\ \E r \in { main(fs, ff_http, ff_pubsub, listing_order) } :
           /\ fs' = r.fs
           /\ err' = r.err
           /\ trace' = trace \o r.calls
           /\ steps' = steps \o r.steps
           /\ pc' = IF r.err = NoError THEN "done" ELSE "failed"
    /\ UNCHANGED <<fs0, earlier, listing_order, ff_http, ff_pubsub, keep_features_dir>>
    /\ UNCHANGED appVars
    /\ UNCHANGED reqVars

\* The steps the hook takes by itself, and those it waits on a debugger for.
HookStep == DebugpyListen \/ ConfigureLogging \/ Main
DebuggerStep == DebuggerAttach \/ DebuggerContinue

Next == HookStep \/ DebuggerStep

Spec == Init /\ [][Next]_vars

(***************************************************************************)
(* The hook run twice on the same rendered project: once it has completed, *)
(* the project is rendered again as it was, with the other answer to       *)
(* keep_features_dir or with other feature variables, and the hook runs on *)
(* it.  The first run's final tree and inputs are kept for comparison.     *)
(***************************************************************************)
PairProjects ==
    { t \in RenderedProjects :
        IsDir(t, FEATURES_DIR \o <<"ff_http">>) /\ IsDir(t, FEATURES_DIR \o <<"ff_pubsub">>) }

PairInit ==
    /\ fs0 \in PairProjects
    /\ fs = fs0
    /\ pc = "start"
    /\ err = NoError
    /\ trace = <<>>
    /\ steps = <<>>
    /\ earlier = <<>>
    /\ listing_order = <<"app.py", "main.py", "utils">> \o NamesBelow
    /\ ff_http \in RenderedValues
    /\ ff_pubsub \in RenderedValues
    /\ keep_features_dir \in BOOLEAN
    /\ NewApp
    /\ NoRequests

Rerun ==
    /\ pc = "done"
    /\ earlier = <<>>
    /\ earlier' = <<[fs |-> fs, keep_features_dir |-> keep_features_dir,
                     ff_http |-> ff_http, ff_pubsub |-> ff_pubsub]>>
    /\ fs' = fs0
    /\ pc' = "start"
    /\ err' = NoError
    /\ trace' = <<>>
    /\ steps' = <<>>
    /\ \/ /\ keep_features_dir' = ~keep_features_dir
          /\ UNCHANGED <<ff_http, ff_pubsub>>
       \/ /\ ff_http' \in RenderedValues
          /\ ff_pubsub' \in RenderedValues
          /\ <<ff_http', ff_pubsub'>> # <<ff_http, ff_pubsub>>
          /\ UNCHANGED keep_features_dir
    /\ UNCHANGED <<fs0, listing_order>>
    /\ UNCHANGED appVars
    /\ UNCHANGED reqVars

PairNext == Next \/ Rerun

PairSpec == PairInit /\ [][PairNext]_vars

(***************************************************************************)
(* copy_feature on its own: the hook module is imported (LOGFILE is open), *)
(* the fragment and the destination are arbitrary trees, and copy_feature  *)
(* is called up to MaxCalls times.                                         *)
(***************************************************************************)
MergeInputs ==
    { Tree(sk, "skel") @@ Put(Empty, LOGFILE, FileNode(<<>>)) @@ Staging @@ h @@ p :
        sk \in DestShapes,
        h \in { Empty, Put(Empty, FEATURES_DIR \o <<"ff_http">>, FileNode(<<"http">>)) }
              \cup { Fragment("ff_http", Tree(sh, "http")) : sh \in Shapes }
              \cup { Fragment("ff_http", OverlappingTree) },
        p \in { Empty, Fragment("ff_pubsub", Tree(PubsubShape, "pubsub")) } }

\* The listing orders tried.  In the trees above an entry named like the
\* staging directory is the only entry of its fragment, so its place in the
\* order changes nothing: it is put first.  Below the top, utils/ may list
\* deduping.py and middleware in either order; copytree copies all the
\* entries of a directory whatever their order, so the second order is
\* tried with one order of the top.
MergeListingOrders ==
    { top \o NamesBelow : top \in { s \in Orders(TopNames) : s[1] = Name(FEATURES_DIR) } }
    \cup { <<"_cookie_features", "app.py", "main.py", "utils",
             "middleware", "deduping.py", "flask_logging.py", "ff_http">> }

MergeInit ==
    /\ fs0 \in MergeInputs
    /\ fs = fs0
    /\ pc = "imported"
    /\ err = NoError
    /\ trace = <<>>
    /\ steps = <<>>
    /\ earlier = <<>>
    /\ listing_order \in MergeListingOrders
    /\ ff_http = LitFalse
    /\ ff_pubsub = LitFalse
    /\ keep_features_dir = TRUE
    /\ NewApp
    /\ NoRequests

CopyFeature ==
    /\ pc = "imported"
    /\ Len(trace) < MaxCalls
    /\ \E name \in FeatureNames :
       \E r \in { copy_feature(fs, name, iterdir(fs, name, listing_order)) } :
           /\ fs' = r.fs
           /\ err' = r.err
           /\ trace' = Append(trace, Call(name, fs, r))
    /\ UNCHANGED <<fs0, pc, steps, earlier, listing_order, ff_http, ff_pubsub, keep_features_dir>>
    /\ UNCHANGED appVars
    /\ UNCHANGED reqVars

MergeNext == CopyFeature

MergeSpec == MergeInit /\ [][MergeNext]_vars

(***************************************************************************)
(* Vocabulary of the properties.                                           *)
(***************************************************************************)
\* A fragment overlaps the destination when it holds an entry named like
\* the staging directory or like the hook's log file: merging it writes
\* into the staging directory or over the log.
Overlaps(t, name) ==
    Listing(t, FEATURES_DIR \o <<name>>) \cap {Name(FEATURES_DIR), Name(LOGFILE)} # {}

\* The Feature Selection the two rendered variables stand for: a variable
\* reads as a boolean when it is "true" or "false" in any letter case.
Truthy(v) == lower(v) = <<"t","r","u","e">>
Falsy(v) == lower(v) = <<"f","a","l","s","e">>
Selection ==
    IF Truthy(ff_http) /\ Falsy(ff_pubsub) THEN "http"
    ELSE IF Falsy(ff_http) /\ Truthy(ff_pubsub) THEN "pubsub"
    ELSE IF Falsy(ff_http) /\ Falsy(ff_pubsub) THEN "none"
    ELSE "unrecognized"

FragmentOf(sel) == IF sel = "http" THEN "ff_http" ELSE "ff_pubsub"
FragmentDir(name) == FEATURES_DIR \o <<name>>

\* The fragments copy_feature was called for in this run.
Merged == { trace[i].name : i \in DOMAIN trace }

\* A tree without the entry at p.
Without(t, p) == [q \in DOMAIN t \ {p} |-> t[q]]

\* The names of the files directly inside directory d.
FilesIn(t, d) == { n \in Listing(t, d) : IsFile(t, d \o <<n>>) }

\* The number of records in the log file of tree t.
Records(t) ==
    IF IsFile(t, LOGFILE)
    THEN Cardinality({ i \in DOMAIN t[LOGFILE].data : t[LOGFILE].data[i] = "INFO" })
    ELSE 0

IsPrefix(a, b) == Len(a) <= Len(b) /\ SubSeq(b, 1, Len(a)) = a

(***************************************************************************)
(* C1: for every recognized Feature Selection the hook merges zero or one  *)
(* fragment: "none" merges none, "http" exactly the http fragment,         *)
(* "pubsub" exactly the pubsub fragment; no run merges two.               *)
(***************************************************************************)
C1_SelectionMergesItsFragment ==
    pc = "done" =>
        /\ Cardinality(Merged) <= 1
        /\ Selection = "none" => Merged = {}
        /\ Selection = "http" => Merged = {"ff_http"}
        /\ Selection = "pubsub" => Merged = {"ff_pubsub"}

(***************************************************************************)
(* C2: after the hook ran with a selection other than "none" whose         *)
(* fragment is staged, every top-level entry of the fragment is in the     *)
(* project root under the same name and of the same kind.                  *)
(***************************************************************************)
C2_FragmentEntriesInRoot ==
    (pc = "done" /\ Selection \in {"http", "pubsub"}
                 /\ IsDir(fs0, FragmentDir(FragmentOf(Selection)))) =>
        \A n \in Listing(fs0, FragmentDir(FragmentOf(Selection))) :
            /\ Exists(fs, PROJECT_ROOT \o <<n>>)
            /\ fs[PROJECT_ROOT \o <<n>>].kind = fs0[FragmentDir(FragmentOf(Selection)) \o <<n>>].kind

(***************************************************************************)
(* C3: when the user does not keep the features directory, the staging     *)
(* directory is gone once the hook has completed.                          *)
(***************************************************************************)
C3_StagingRemovedUnlessKept ==
    (pc = "done" /\ ~keep_features_dir) => ~Exists(fs, FEATURES_DIR)

C5_InvalidSelectionAborts ==
    Selection = "unrecognized" =>
        /\ pc # "done"
        /\ Merged = {}
        /\ IsDir(fs, FEATURES_DIR)

(***************************************************************************)
(* C5, amended: for a Feature Selection outside the recognized set main()  *)
(* raises nothing and the hook completes; it merges no fragment, leaves    *)
(* the staging directory in place, and the only file it writes is its own  *)
(* log, .post_gen.log.  (The run fails only where debugpy.listen does.)    *)
(***************************************************************************)
C5_UnrecognizedSelectionIgnored ==
    Selection = "unrecognized" =>
        /\ pc = "failed" => err = "RuntimeError"
        /\ pc = "done" =>
            /\ err = NoError
            /\ Merged = {}
            /\ Without(fs, LOGFILE) = fs0

C5_Witness == pc = "done" /\ Selection = "unrecognized" /\ IsFile(fs, LOGFILE)

(***************************************************************************)
(* C6: the hook never waits on an external actor: until it has completed   *)
(* or failed, a step of its own is always possible.                        *)
(***************************************************************************)
C6_NoSuspensionPoint ==
    pc \notin {"done", "failed"} => ENABLED HookStep

(***************************************************************************)
(* C7: copy_feature for a fragment whose directory does not exist writes   *)
(* nothing, leaves the tree as it was and raises nothing.                  *)
(***************************************************************************)
C7_AbsentFragmentIsNoOp ==
    \A i \in DOMAIN trace :
        ~Exists(trace[i].before, FragmentDir(trace[i].name)) =>
            /\ trace[i].after = trace[i].before
            /\ trace[i].err = NoError
            /\ trace[i].writes = 0

C7_Witness ==
    \E i \in DOMAIN trace :
        /\ ~Exists(trace[i].before, FragmentDir(trace[i].name))
        /\ Listing(trace[i].before, PROJECT_ROOT) # {}

(***************************************************************************)
(* C8 is about a fragment whose entries are files, G, merged into a root   *)
(* where no directory has one of their names; D is the root's files.       *)
(***************************************************************************)
FlatMerge(c) ==
    /\ IsDir(c.before, FragmentDir(c.name))
    /\ \A n \in Listing(c.before, FragmentDir(c.name)) :
           /\ IsFile(c.before, FragmentDir(c.name) \o <<n>>)
           /\ ~IsDir(c.before, PROJECT_ROOT \o <<n>>)

UnionOfFiles(c, untouched) ==
    LET G == FilesIn(c.before, FragmentDir(c.name))
        D == FilesIn(c.before, PROJECT_ROOT)
    IN  /\ FilesIn(c.after, PROJECT_ROOT) = D \cup G
        /\ \A n \in G : c.after[PROJECT_ROOT \o <<n>>] = c.before[FragmentDir(c.name) \o <<n>>]
        /\ \A n \in (D \ G) \cap untouched :
               c.after[PROJECT_ROOT \o <<n>>] = c.before[PROJECT_ROOT \o <<n>>]

(***************************************************************************)
(* C8, as claimed: after merge the destination holds exactly the names     *)
(* D union G, every name of G with the fragment's content and every name   *)
(* of D outside G with its prior content.                                  *)
(***************************************************************************)
C8_UnionAllOthersKept ==
    \A i \in DOMAIN trace :
        FlatMerge(trace[i]) => UnionOfFiles(trace[i], FilesIn(trace[i].before, PROJECT_ROOT))

(***************************************************************************)
(* C8, amended: the same, except that the hook's log file .post_gen.log,   *)
(* a file of the destination, does not keep its content: merge appends     *)
(* one record to it for every entry of the fragment.                       *)
(***************************************************************************)
C8_UnionOthersKeptButLog ==
    \A i \in DOMAIN trace :
        FlatMerge(trace[i]) =>
            /\ UnionOfFiles(trace[i], FilesIn(trace[i].before, PROJECT_ROOT) \ {Name(LOGFILE)})
            /\ IsPrefix(trace[i].before[LOGFILE].data, trace[i].after[LOGFILE].data)
            /\ Records(trace[i].after) = Records(trace[i].before)
                   + Cardinality(Listing(trace[i].before, FragmentDir(trace[i].name)))

\* A merge where the fragment replaces a file, adds a file and leaves one.
C8_Witness ==
    \E i \in DOMAIN trace :
        LET c == trace[i]
            G == FilesIn(c.before, FragmentDir(c.name))
            D == FilesIn(c.before, PROJECT_ROOT)
        IN  /\ FlatMerge(c)
            /\ G \cap D # {}
            /\ G \ D # {}
            /\ D \ (G \cup {Name(LOGFILE)}) # {}

(***************************************************************************)
(* C9, as claimed: running merge twice in a row yields the same tree       *)
(* (names and contents) as running it once.                                *)
(***************************************************************************)
C9_SecondMergeChangesNothing ==
    \A i \in DOMAIN trace :
        (i + 1 \in DOMAIN trace /\ trace[i + 1].name = trace[i].name) =>
            trace[i + 1].after = trace[i].after

(***************************************************************************)
(* C9, amended: for a fragment that holds no entry named like the staging  *)
(* directory or the log file, running merge twice in a row yields the same *)
(* tree as running it once, and ends the same way, apart from the hook's   *)
(* log file .post_gen.log, which every run extends.                        *)
(***************************************************************************)
C9_SecondMergeChangesOnlyLog ==
    \A i \in DOMAIN trace :
        (/\ i + 1 \in DOMAIN trace /\ trace[i + 1].name = trace[i].name
         /\ ~Overlaps(trace[i].before, trace[i].name)) =>
            /\ Without(trace[i + 1].after, LOGFILE) = Without(trace[i].after, LOGFILE)
            /\ trace[i + 1].err = trace[i].err
            /\ IsPrefix(trace[i].after[LOGFILE].data, trace[i + 1].after[LOGFILE].data)

\* Two merges in a row of a fragment with a directory, the first changing the root.
C9_Witness ==
    \E i \in DOMAIN trace :
        /\ i + 1 \in DOMAIN trace /\ trace[i + 1].name = trace[i].name
        /\ ~Overlaps(trace[i].before, trace[i].name)
        /\ trace[i].err = NoError
        /\ \E n \in Listing(trace[i].before, FragmentDir(trace[i].name)) :
               IsDir(trace[i].before, FragmentDir(trace[i].name) \o <<n>>)
        /\ Without(trace[i].after, LOGFILE) # Without(trace[i].before, LOGFILE)

(***************************************************************************)
(* C10: after a generation with selection "http" and the features          *)
(* directory not kept, no file of the pubsub fragment that the http        *)
(* fragment does not also have is anywhere under the project root.         *)
(***************************************************************************)
PubsubOnly(node) ==
    /\ node.kind = "file"
    /\ Len(node.data) > 1
    /\ node.data[1] = "pubsub"
    /\ Tail(node.data) \notin DOMAIN HttpShape

C10_NoPubsubFilesAfterHttp ==
    (pc = "done" /\ Selection = "http" /\ ~keep_features_dir) =>
        \A p \in DOMAIN fs : ~PubsubOnly(fs[p])

(***************************************************************************)
(* C11: main() takes the cleanup decision at most once, and exactly once   *)
(* in a run that completes; it is taken after both feature tests and after *)
(* every copy_feature call, only shutil.rmtree may follow it, and every    *)
(* copy_feature call starts and ends with the staging directory in place.  *)
(***************************************************************************)
CleanupDecisions == { i \in DOMAIN steps : steps[i] = TestRemove }

C11_CleanupOnceAfterMerges ==
    /\ Cardinality(CleanupDecisions) <= 1
    /\ pc = "done" => Cardinality(CleanupDecisions) = 1
    /\ \A i \in CleanupDecisions :
           /\ \A j \in DOMAIN steps : j > i => steps[j] = RmtreeStep
           /\ \E j \in 1..(i - 1) : steps[j] = TestHttp
           /\ \E j \in 1..(i - 1) : steps[j] = TestPubsub
    /\ \A i \in DOMAIN trace :
           /\ IsDir(trace[i].before, FEATURES_DIR)
           /\ IsDir(trace[i].after, FEATURES_DIR)

\* A completed run from a project with both fragments staged.
C11_Witness ==
    /\ pc = "done" /\ CleanupDecisions # {}
    /\ IsDir(fs0, FragmentDir("ff_http")) /\ IsDir(fs0, FragmentDir("ff_pubsub"))
    /\ IsDir(fs, FEATURES_DIR)

(***************************************************************************)
(* Vocabulary of C12.                                                      *)
(***************************************************************************)
\* The entries of the fragment of call c, in the order they are copied.
ItemsOf(c) == iterdir(c.before, c.name, listing_order)

\* How many entries call c started on: it logs each before copying it.
Started(c) == Records(c.after) - Records(c.before)

\* The entry at path p, and all below it, is in tree b as it is in tree a.
SameEntry(a, b, p) ==
    /\ Exists(a, p) <=> Exists(b, p)
    /\ Exists(a, p) => a[p] = b[p] /\ Subtree(a, p) = Subtree(b, p)

\* Copying src to dst raises: a directory onto a file, or a file into a
\* directory that has a directory of the file's name.
Collides(t, src, dst) ==
    \/ IsDir(t, src) /\ Exists(t, dst) /\ ~IsDir(t, dst)
    \/ IsFile(t, src) /\ IsDir(t, dst) /\ IsDir(t, dst \o <<Name(src)>>)

ListedBefore(a, b) ==
    \E i, j \in DOMAIN listing_order :
        i < j /\ listing_order[i] = a /\ listing_order[j] = b

(***************************************************************************)
(* C12, as claimed: once copying an entry of the fragment has raised, no   *)
(* remaining copy is executed: an entry listed after it in the same        *)
(* directory is in the destination as it was before the merge.             *)
(***************************************************************************)
C12_NothingCopiedAfterError ==
    \A i \in DOMAIN trace :
        LET c == trace[i]
            frag == FragmentDir(c.name)
        IN  \A p, q \in { r \in DOMAIN Subtree(c.before, frag) : Len(r) > 0 } :
                (/\ Parent(p) = Parent(q)
                 /\ ListedBefore(Name(p), Name(q))
                 /\ Collides(c.before, frag \o p, PROJECT_ROOT \o p)) =>
                    SameEntry(c.before, c.after, PROJECT_ROOT \o q)

(***************************************************************************)
(* C12, amended: a copy_feature call that raises ends at the top-level     *)
(* entry whose copy raised: the error is the call's outcome, every entry   *)
(* was started on at most once, the entries listed after the failing one   *)
(* are neither logged nor copied, and the entries copied before it stay    *)
(* in the project root.                                                    *)
(***************************************************************************)
C12_ErrorEndsMergeKeepsCopies ==
    \A i \in DOMAIN trace :
        LET c == trace[i]
            frag == FragmentDir(c.name)
            order == ItemsOf(c)
            k == Started(c)
        IN  c.err # NoError =>
                /\ i = Len(trace) => err = c.err
                /\ k \in 0..Len(order)
                /\ k = 0 <=> ~IsDir(c.before, frag)
                /\ \A j \in (k + 1)..Len(order) :
                       SameEntry(c.before, c.after, PROJECT_ROOT \o <<order[j]>>)
                /\ \A j \in 1..(k - 1) :
                       LET src == frag \o <<order[j]>>
                           dst == PROJECT_ROOT \o <<order[j]>>
                       IN  IF IsDir(c.before, src) THEN IsDir(c.after, dst)
                           ELSE IF IsDir(c.before, dst)
                                THEN c.after[dst \o <<order[j]>>] = c.before[src]
                                ELSE c.after[dst] = c.before[src]

\* A call that raised at its second entry: the first is copied and kept,
\* the third is not copied.
C12_Witness ==
    \E i \in DOMAIN trace :
        LET c == trace[i]
            order == ItemsOf(c)
        IN  /\ c.err # NoError
            /\ Started(c) = 2 /\ Len(order) = 3
            /\ ~SameEntry(c.before, c.after, PROJECT_ROOT \o <<order[1]>>)
            /\ ~Exists(c.after, PROJECT_ROOT \o <<order[3]>>)

(***************************************************************************)
(* Vocabulary of C13.                                                      *)
(***************************************************************************)
\* The tree outside the staging directory.
OutsideStaging(t) ==
    [p \in { q \in DOMAIN t : q # FEATURES_DIR /\ ~IsUnder(q, FEATURES_DIR) } |-> t[p]]

\* The Feature Selection of an earlier run.
SelectionOf(e) ==
    IF Truthy(e.ff_http) /\ Falsy(e.ff_pubsub) THEN "http"
    ELSE IF Falsy(e.ff_http) /\ Truthy(e.ff_pubsub) THEN "pubsub"
    ELSE IF Falsy(e.ff_http) /\ Falsy(e.ff_pubsub) THEN "none"
    ELSE "unrecognized"

(***************************************************************************)
(* C13: of two completed runs of the hook from the same rendered project,  *)
(* two with the same Feature Selection and opposite answers to             *)
(* keep_features_dir end with the same tree outside _cookie_features/,     *)
(* and two with the same answer to keep_features_dir end both with or both *)
(* without _cookie_features/, whatever their Feature Selections.           *)
(***************************************************************************)
C13_FlagOrthogonalToSelection ==
    (pc = "done" /\ earlier # <<>>) =>
        LET e == earlier[1]
        IN  /\ (SelectionOf(e) = Selection /\ e.keep_features_dir # keep_features_dir) =>
                   OutsideStaging(fs) = OutsideStaging(e.fs)
            /\ e.keep_features_dir = keep_features_dir =>
                   (Exists(fs, FEATURES_DIR) <=> Exists(e.fs, FEATURES_DIR))

\* Two completed runs with selection "http", the first keeping the features
\* directory and the second not.
C13_Witness ==
    /\ pc = "done" /\ earlier # <<>>
    /\ Selection = "http" /\ SelectionOf(earlier[1]) = "http"
    /\ earlier[1].keep_features_dir /\ ~keep_features_dir
    /\ IsFile(fs, LOGFILE)

\* Two completed runs that do not keep the features directory, with
\* selections "http" and "none".
C13_WitnessSelections ==
    /\ pc = "done" /\ earlier # <<>>
    /\ SelectionOf(earlier[1]) = "http" /\ Selection = "none"
    /\ ~earlier[1].keep_features_dir /\ ~keep_features_dir

(***************************************************************************)
(* Vocabulary of C14.  Paths are relative to the fragment and to the       *)
(* project root alike.                                                     *)
(***************************************************************************)
\* The fragment of call c provides path p.
Provides(c, p) == Exists(c.before, FragmentDir(c.name) \o p)
ProvidesFile(c, p) == IsFile(c.before, FragmentDir(c.name) \o p)

\* The fragment has a file for p's directory, which in the destination is
\* a directory, and p has the file's name: copy2 puts the file there.
LandingPlace(c, p) ==
    /\ Len(p) > 1
    /\ Name(p) = Name(Parent(p))
    /\ ProvidesFile(c, Parent(p))
    /\ IsDir(c.before, PROJECT_ROOT \o Parent(p))

\* The directory children of the fragment of a call that completed.
DirChildren(c) ==
    IF c.err # NoError THEN {}
    ELSE { n \in Listing(c.before, FragmentDir(c.name)) :
             IsDir(c.before, FragmentDir(c.name) \o <<n>>) }

\* The paths of tree t below the entry named n.
Below(t, n) == { p \in DOMAIN t : IsUnder(p, PROJECT_ROOT \o <<n>>) }

(***************************************************************************)
(* C14, as claimed: after a merge, for every directory child of the        *)
(* fragment the destination has a directory of its name; everything the    *)
(* destination held below it that the fragment does not provide is as it   *)
(* was; every file the fragment provides where the destination had a file  *)
(* is the fragment's.                                                      *)
(***************************************************************************)
C14_OverlayKeepsAllExtras ==
    \A i \in DOMAIN trace :
        LET c == trace[i]
        IN  \A n \in DirChildren(c) :
                /\ IsDir(c.after, PROJECT_ROOT \o <<n>>)
                /\ \A p \in Below(c.before, n) :
                       ~Provides(c, p) => (Exists(c.after, p) /\ c.after[p] = c.before[p])
                /\ \A p \in Below(c.before, n) :
                       (ProvidesFile(c, p) /\ IsFile(c.before, p)) =>
                           c.after[p] = c.before[FragmentDir(c.name) \o p]

(***************************************************************************)
(* C14, amended: the same, except where the fragment provides a file and   *)
(* the destination has a directory of that name: the file is copied into   *)
(* that directory under its own name, over a file of that name there, and  *)
(* the directory stays.  A file the fragment provides where the            *)
(* destination had nothing is created with the fragment's content.         *)
(***************************************************************************)
C14_OverlayKeepsExtrasButLanding ==
    \A i \in DOMAIN trace :
        LET c == trace[i]
            frag == FragmentDir(c.name)
        IN  \A n \in DirChildren(c) :
                /\ IsDir(c.after, PROJECT_ROOT \o <<n>>)
                /\ \A p \in Below(c.before, n) :
                       (~Provides(c, p) /\ ~LandingPlace(c, p)) =>
                           (Exists(c.after, p) /\ c.after[p] = c.before[p])
                /\ \A p \in Below(Subtree(c.before, frag), n) :
                       ProvidesFile(c, p) =>
                           IF IsDir(c.before, p)
                           THEN /\ IsDir(c.after, p)
                                /\ c.after[p \o <<Name(p)>>] = c.before[frag \o p]
                           ELSE c.after[p] = c.before[frag \o p]

\* A merge that completed, of a fragment with a directory in a directory:
\* below it the destination had a file the fragment replaces, a file the
\* fragment does not have, and the fragment adds a file.
C14_Witness ==
    \E i \in DOMAIN trace :
        LET c == trace[i]
        IN  /\ \E n \in DirChildren(c) : \E p \in Below(c.before, n) :
                   Len(p) > 2 /\ ProvidesFile(c, p) /\ IsFile(c.before, p)
                              /\ c.before[p] # c.after[p]
            /\ \E n \in DirChildren(c) : \E p \in Below(c.before, n) :
                   ~Provides(c, p) /\ ~LandingPlace(c, p) /\ IsFile(c.before, p)
            /\ \E n \in DirChildren(c) : \E p \in Below(Subtree(c.before, FragmentDir(c.name)), n) :
                   ProvidesFile(c, p) /\ ~Exists(c.before, p)

RECURSIVE SetAfter(_)
SetAfter(h) ==
    IF h = <<>> THEN {}
    ELSE LET o == h[Len(h)]
             was == SetAfter(SubSeq(h, 1, Len(h) - 1))
         IN  IF o.raised # NoError THEN was
             ELSE IF o.op = "add_degrade_status" THEN was \cup {o.status}
             ELSE IF o.op = "remove_degrade_status" THEN was \ {o.status}
             ELSE was

Healthy(r) == r.code = 200 /\ r.status = "healthy" /\ ~r.has_failure

Degraded(r, set) ==
    /\ r.code = 500 /\ r.status = "degraded" /\ r.has_failure
    /\ Len(r.failure) = Cardinality(set)
    /\ { r.failure[i] : i \in DOMAIN r.failure } = { str(s) : s \in set }

(***************************************************************************)
(* C16: after any sequence of add_degrade_status and remove_degrade_status *)
(* calls, a GET on the AppDegradeView route answers 500, "degraded" and    *)
(* the texts of the current statuses when the degrade-status set is not    *)
(* empty, and 200, "healthy" when it is; a GET right after the removal of  *)
(* the last status answers healthy.                                        *)
(***************************************************************************)
C16_ViewReportsDegradeSet ==
    \A i \in DOMAIN history :
        history[i].op = "GET" =>
            LET set == SetAfter(SubSeq(history, 1, i))
                r == history[i].response
            IN  /\ history[i].statuses = set
                /\ set # {} => Degraded(r, set)
                /\ set = {} => Healthy(r)
                /\ Healthy(r) \/ r.code = 500

\* A GET answered degraded, the one status removed, the next GET healthy.
C16_Witness ==
    \E i \in DOMAIN history :
        /\ i + 2 \in DOMAIN history
        /\ history[i].op = "GET" /\ history[i].response.code = 500
        /\ history[i + 1].op = "remove_degrade_status" /\ history[i + 1].raised = NoError
        /\ history[i + 2].op = "GET" /\ Healthy(history[i + 2].response)

(***************************************************************************)
(* Vocabulary of C17.                                                      *)
(***************************************************************************)
\* fail_condition is given and true of the result of call o.
FailConditionTrue(o) ==
    /\ o.callable_.raises = NoError
    /\ o.fail_condition = "x > 4"
    /\ o.callable_.result.int > 4

\* fail_condition is given and raises on the result of call o.
FailConditionRaises(o) ==
    /\ o.callable_.raises = NoError
    /\ o.fail_condition = "x / 0 > 4"

StatusAdded(o) == o.statuses = o.before \cup {o.status_if_fail}

(***************************************************************************)
(* C17, as claimed: if callable_ raises, the status is added,              *)
(* return_if_error is returned and no exception escapes; if callable_      *)
(* returns a result for which fail_condition is true, the status is added  *)
(* and the result returned; otherwise the set is unchanged and the result  *)
(* returned.                                                               *)
(***************************************************************************)
C17_StatusExactlyWhenCallFailed ==
    \A i \in DOMAIN history :
        LET o == history[i]
        IN  IF o.callable_.raises # NoError
            THEN StatusAdded(o) /\ o.returned = o.return_if_error /\ o.raised = NoError
            ELSE IF FailConditionTrue(o)
            THEN StatusAdded(o) /\ o.returned = o.callable_.result /\ o.raised = NoError
            ELSE o.statuses = o.before /\ o.returned = o.callable_.result /\ o.raised = NoError

(***************************************************************************)
(* C17, amended: if callable_ raises an Exception, or fail_condition       *)
(* raises one on the result, the status is added and return_if_error is    *)
(* returned; if callable_ returns a result for which fail_condition is     *)
(* true, the status is added and the result returned; if callable_ raises  *)
(* an exception that is not an Exception (SystemExit, KeyboardInterrupt),  *)
(* it escapes and the set is unchanged; otherwise the set is unchanged     *)
(* and the result returned.                                                *)
(***************************************************************************)
C17_StatusWhenCallOrConditionFailed ==
    \A i \in DOMAIN history :
        LET o == history[i]
        IN  IF o.callable_.raises # NoError /\ ~IsException(o.callable_.raises)
            THEN o.statuses = o.before /\ o.raised = o.callable_.raises
            ELSE IF o.callable_.raises # NoError \/ FailConditionRaises(o)
            THEN StatusAdded(o) /\ o.returned = o.return_if_error /\ o.raised = NoError
            ELSE IF FailConditionTrue(o)
            THEN StatusAdded(o) /\ o.returned = o.callable_.result /\ o.raised = NoError
            ELSE o.statuses = o.before /\ o.returned = o.callable_.result /\ o.raised = NoError

\* A call whose result fails the condition, on an app that did not have
\* the status.
C17_Witness ==
    \E i \in DOMAIN history :
        /\ FailConditionTrue(history[i])
        /\ history[i].status_if_fail \notin history[i].before
        /\ history[i].before # {}
        /\ history[i].status_if_fail \in history[i].statuses

(***************************************************************************)
(* C18: between requests all eight context variables are None, whether     *)
(* the last request ended with a response or with an exception; a record   *)
(* emitted between requests carries None in all eight fields, and a record *)
(* emitted during a request carries no value of another request.           *)
(***************************************************************************)
C18_TeardownResetsContext ==
    /\ phase = "idle" => \A v \in ContextVars : ctx[v] = None
    /\ \A r \in records : \A v \in ContextVars :
           /\ r.during = 0 => r.fields[v] = None
           /\ r.fields[v] # None => r.fields[v][2] = r.during

\* The first request ended with an exception and is torn down, a record
\* was emitted after it, and the second request has logged its start.
C18_Witness ==
    /\ served = 2
    /\ \E r \in records : r.during = 1 /\ r.event = "http.request.start"
    /\ ~\E r \in records : r.during = 1 /\ r.event = "http.request.end"
    /\ \E r \in records : r.during = 0
    /\ \E r \in records : r.during = 2 /\ r.event = "http.request.end"
                            /\ r.fields["status_code"] = <<"200", 2>>
    /\ phase = "idle"

====
